---- MODULE Spec2Model ----
(***************************************************************************)
(* Model of lgc.py, the clinical trial simulator: the numeric helpers      *)
(* (get_phi, get_par, get_overlap, get_pvalue, get_cvalue), the callback   *)
(* update_data and the Reset handler reset_data.                           *)
(*                                                                         *)
(* Numbers.  Python floats are modelled as decimal fixed point with four   *)
(* fractional digits: the integer v stands for v / SCALE.  A float that    *)
(* can be infinite or NaN in the code is an extended float, a record       *)
(* [k, v] with k in {"fin", "inf", "ninf", "nan"}.  A Python exception is  *)
(* an outcome of its own ("raise"), never a number.                        *)
(***************************************************************************)
EXTENDS Integers, Sequences, FiniteSets

\* ------------------------------------------------------------------------
\* Fixed-point arithmetic (the float operations of the interpreter)
\* ------------------------------------------------------------------------

SCALE == 100 * 100

Abs(a) == IF a < 0 THEN -a ELSE a

Sign(a) == IF a < 0 THEN -1 ELSE 1

\* Python's max and min of two numbers
Max(a, b) == IF b > a THEN b ELSE a

Min(a, b) == IF b < a THEN b ELSE a

RECURSIVE LongDiv(_, _, _, _)
\* q, r the quotient and remainder so far: n more decimal digits of r / b
LongDiv(q, r, b, n) ==
  IF n = 0 THEN q + (IF 2 * r >= b THEN 1 ELSE 0)
  ELSE LongDiv(q * 10 + ((r * 10) \div b), (r * 10) % b, b, n - 1)

\* a / b for fixed-point a and b (b # 0), rounded to the nearest unit
DivFP(a, b) == Sign(a) * Sign(b) * LongDiv(Abs(a) \div Abs(b), Abs(a) % Abs(b), Abs(b), 4)

\* a / n for fixed-point a and an integer n (n # 0)
DivInt(a, n) == Sign(a) * Sign(n) * LongDiv(Abs(a) \div Abs(n), Abs(a) % Abs(n), Abs(n), 0)

\* a * b for fixed-point a, b >= 0, in parts so that no product leaves the
\* integer range
MulAbs(a, b) ==
  (a \div SCALE) * b + (a % SCALE) * (b \div SCALE) + (((a % SCALE) * (b % SCALE) + SCALE \div 2) \div SCALE)

\* a * b for fixed-point a and b
MulFP(a, b) == Sign(a) * Sign(b) * MulAbs(Abs(a), Abs(b))

RECURSIVE ISqrt(_, _, _)
\* the largest r in lo..hi with r * r <= n
ISqrt(n, lo, hi) ==
  IF lo >= hi THEN lo
  ELSE LET mid == (lo + hi + 1) \div 2
       IN  IF mid * mid <= n THEN ISqrt(n, mid, hi) ELSE ISqrt(n, lo, mid - 1)

\* math.sqrt of a fixed-point v >= 0
math_sqrt(v) == ISqrt(v * SCALE, 0, 46340)

RECURSIVE ExpSeries(_, _, _, _)
\* sum of the terms x^k / k! from term t = x^(k-1)/(k-1)! on
ExpSeries(x, t, k, acc) ==
  IF t = 0 THEN acc
  ELSE ExpSeries(x, DivInt(MulFP(t, x), k), k + 1, acc + t)

\* math.exp of a fixed-point x
math_exp(x) ==
  IF x >= 0 THEN ExpSeries(x, SCALE, 1, 0)
  ELSE DivFP(SCALE, ExpSeries(-x, SCALE, 1, 0))

RECURSIVE Log2Floor(_, _)
\* the k with 2^k <= v < 2^(k+1), counted from k
Log2Floor(v, k) == IF v < 2 THEN k ELSE Log2Floor(v \div 2, k + 1)

RECURSIVE Pow2(_)
Pow2(k) == IF k = 0 THEN 1 ELSE 2 * Pow2(k - 1)

\* 2 (y + y^3/3 + y^5/5 + y^7/7 + y^9/9) with y2 = y^2
AtanhSeries(y, y2) ==
  2 * (y + MulFP(y, MulFP(y2, 3333 + MulFP(y2, 2000 + MulFP(y2, 1429 + MulFP(y2, 1111))))))

\* 2 * atanh(y) = ln((1+y)/(1-y)) for a fixed-point 0 <= y <= 1/3
Atanh2(y) == AtanhSeries(y, MulFP(y, y))

\* v / p as a fixed-point number
Mantissa(v, p) == LongDiv(v \div p, v % p, p, 4)

\* k * ln 2 + ln m - 4 * ln 10
LogOfParts(k, m) == ((k * 693147 + 50) \div 100) + Atanh2(DivFP(m - SCALE, m + SCALE)) - 92103

\* math.log of a fixed-point v > 0.  The integer v is 2^k * m with 1 <= m < 2, so
\* ln(v / SCALE) = k * ln 2 + ln m - 4 * ln 10 (ln 2 = 0.693147, 4 ln 10 = 9.2103)
math_log(v) == LogOfParts(Log2Floor(v, 0), Mantissa(v, Pow2(Log2Floor(v, 0))))

\* the float power b ** e for a fixed-point b > 0
Pow(b, e) == math_exp(MulFP(e, math_log(b)))

\* a >= 0 to the nearest multiple of unit, halves to the even multiple
RoundAbs(a, unit) ==
  unit * ((a \div unit)
          + (IF 2 * (a % unit) > unit \/ (2 * (a % unit) = unit /\ (a \div unit) % 2 = 1) THEN 1 ELSE 0))

\* round(x, nd) of a fixed-point x, nd in 0..4: to the nearest, halves to even
Round(x, nd) ==
  Sign(x) * RoundAbs(Abs(x), CASE nd = 0 -> SCALE [] nd = 1 -> 1000 [] nd = 2 -> 100 [] nd = 3 -> 10 [] OTHER -> 1)

\* math.ceil of a fixed-point x, as an integer
math_ceil(x) == IF x % SCALE = 0 THEN x \div SCALE ELSE (x \div SCALE) + 1

\* ------------------------------------------------------------------------
\* Extended floats: inf, -inf and NaN
\* ------------------------------------------------------------------------

Fin(v) == [k |-> "fin", v |-> v]

INF == [k |-> "inf", v |-> 0]

NINF == [k |-> "ninf", v |-> 0]

NAN == [k |-> "nan", v |-> 0]

ONE == Fin(SCALE)

XNeg(a) ==
  CASE a.k = "fin" -> Fin(-a.v) [] a.k = "inf" -> NINF [] a.k = "ninf" -> INF [] OTHER -> NAN

\* the sign of a non-NaN extended float: -1, 0 or 1
XSign(a) ==
  CASE a.k = "inf" -> 1 [] a.k = "ninf" -> -1 [] OTHER -> (IF a.v > 0 THEN 1 ELSE IF a.v < 0 THEN -1 ELSE 0)

\* float multiplication: inf * 0 is NaN
XMul(a, b) ==
  IF a.k = "nan" \/ b.k = "nan" THEN NAN
  ELSE IF a.k = "fin" /\ b.k = "fin" THEN Fin(MulFP(a.v, b.v))
  ELSE IF XSign(a) * XSign(b) = 0 THEN NAN
  ELSE IF XSign(a) * XSign(b) > 0 THEN INF ELSE NINF

\* float subtraction a - b: inf - inf is NaN
XSub(a, b) ==
  IF a.k = "nan" \/ b.k = "nan" THEN NAN
  ELSE IF a.k = "fin" /\ b.k = "fin" THEN Fin(a.v - b.v)
  ELSE IF a.k = b.k THEN NAN
  ELSE IF a.k = "fin" THEN XNeg(b) ELSE a

\* math.exp of an extended float (the arguments of the model stay far below the
\* 709 where math.exp raises OverflowError)
XExp(a) ==
  CASE a.k = "fin" -> Fin(math_exp(a.v)) [] a.k = "inf" -> INF [] a.k = "ninf" -> Fin(0) [] OTHER -> NAN

\* a <= b on floats: every comparison with NaN is False
XLe(a, b) ==
  IF a.k = "nan" \/ b.k = "nan" THEN FALSE
  ELSE IF a.k = "ninf" \/ b.k = "inf" THEN TRUE
  ELSE IF a.k = "inf" \/ b.k = "ninf" THEN FALSE
  ELSE a.v <= b.v

\* a > b on floats
XGt(a, b) ==
  IF a.k = "nan" \/ b.k = "nan" THEN FALSE
  ELSE IF a.k = "ninf" \/ b.k = "inf" THEN FALSE
  ELSE IF a.k = "inf" \/ b.k = "ninf" THEN TRUE
  ELSE a.v > b.v

\* a < b on floats
XLt(a, b) == XGt(b, a)

\* round(a, nd): NaN and inf round to themselves
XRound(a, nd) == IF a.k = "fin" THEN Fin(Round(a.v, nd)) ELSE a

\* Python's min(a, b): b replaces a only when b < a
XMin(a, b) == IF XLt(b, a) THEN b ELSE a

\* numpy's float64 division a / b of finite a, b: no exception, x/0 is inf, 0/0 is NaN
NpDiv(a, b) ==
  IF b # 0 THEN Fin(DivFP(a, b))
  ELSE IF a = 0 THEN NAN ELSE IF a > 0 THEN INF ELSE NINF

\* ------------------------------------------------------------------------
\* The outcome of a call: a value, or an exception
\* ------------------------------------------------------------------------

Ok(v) == [st |-> "ok", val |-> v, err |-> "none"]

Raise(e) == [st |-> "raise", val |-> 0, err |-> e]

\* ------------------------------------------------------------------------
\* scipy.stats.norm: the standard normal upper quantile and distribution
\* function, by linear interpolation of the quantile table
\* ------------------------------------------------------------------------

\* <<q, z>> with P(Z > z) = q, for q up to 1/2
IsfPoints ==
  << <<1, 37190>>, <<5, 32905>>, <<25, 28070>>, <<50, 25758>>, <<125, 22414>>,
     <<250, 19600>>, <<500, 16449>>, <<750, 14395>>, <<1000, 12816>>, <<1250, 11503>>,
     <<1500, 10364>>, <<2000, 8416>>, <<2500, 6745>>, <<3000, 5244>>, <<3500, 3853>>,
     <<4000, 2533>>, <<4500, 1257>>, <<5000, 0>> >>

\* the quantile of q on the segment from point a to point b
IsfSegment(q, a, b) == a[2] - (((a[2] - b[2]) * (q - a[1])) \div (b[1] - a[1]))

\* P(Z > t) on the segment from point a to point b
SfSegment(t, a, b) == a[1] + (((b[1] - a[1]) * (a[2] - t)) \div (a[2] - b[2]))

RECURSIVE IsfInterp(_, _)
\* the quantile of q, 1 <= q <= SCALE / 2, from segment i of the table on
IsfInterp(q, i) ==
  IF q > IsfPoints[i + 1][1] THEN IsfInterp(q, i + 1) ELSE IsfSegment(q, IsfPoints[i], IsfPoints[i + 1])

\* stats.norm.isf(q): NaN outside [0, 1], inf at 0, -inf at 1
norm_isf(q) ==
  IF q < 0 \/ q > SCALE THEN NAN
  ELSE IF q = 0 THEN INF
  ELSE IF q = SCALE THEN NINF
  ELSE IF 2 * q <= SCALE THEN Fin(IsfInterp(q, 1))
  ELSE Fin(-IsfInterp(SCALE - q, 1))

RECURSIVE SfInterp(_, _)
\* P(Z > t) for t >= 0, from segment i of the table on
SfInterp(t, i) ==
  IF t > IsfPoints[i][2] THEN 0
  ELSE IF t < IsfPoints[i + 1][2] THEN SfInterp(t, i + 1)
  ELSE SfSegment(t, IsfPoints[i], IsfPoints[i + 1])

\* P(Z <= t)
StdNormalCdf(t) == IF t >= 0 THEN Fin(SCALE - SfInterp(t, 1)) ELSE Fin(SfInterp(-t, 1))

\* stats.norm.cdf(x, mean, stdev) for finite x: NaN unless stdev > 0
norm_cdf(x, mean, stdev) == IF stdev <= 0 THEN NAN ELSE StdNormalCdf(DivFP(x - mean, stdev))

\* ------------------------------------------------------------------------
\* Relative risk: get_phi, get_par
\* ------------------------------------------------------------------------

HALF == SCALE \div 2

\* math.log of a fixed-point v: ValueError at v <= 0
LogOrRaise(v) == IF v <= 0 THEN Raise("ValueError") ELSE Ok(math_log(v))

\* math.log(a / b) of fixed-point a and b > 0: ValueError at a quotient <= 0
LogOfRatio(a, b) == LogOrRaise(DivFP(a, b))

\* line 106: math.exp(l1 - l0) of the two logarithms
ExpOfDifference(l1, l0) ==
  IF l1.st = "raise" THEN l1
  ELSE IF l0.st = "raise" THEN l0
  ELSE Ok(math_exp(l1.val - l0.val))

get_phi(p0, p1, n0, n1, walter) ==
  IF ~walter
  THEN IF p0 = 0 THEN Raise("ZeroDivisionError") ELSE Ok(DivFP(p1, p0))
  ELSE ExpOfDifference(LogOfRatio(p1 * n1 + HALF, n1 * SCALE + HALF),
                       LogOfRatio(p0 * n0 + HALF, n0 * SCALE + HALF))

\* math.sqrt of a fixed-point v: ValueError below 0
SqrtOrRaise(v) == IF v < 0 THEN Raise("ValueError") ELSE Ok(math_sqrt(v))

\* a faulty variant of get_par: the Walter formula whatever the method, so that
\* the Katz method no longer fails at a zero proportion
get_par_AlwaysWalter(p0, p1, n0, n1, walter) ==
  SqrtOrRaise(DivFP(SCALE, p1 * n1 + HALF) - DivFP(SCALE, n1 * SCALE + HALF)
              + DivFP(SCALE, p0 * n0 + HALF) - DivFP(SCALE, n0 * SCALE + HALF))

get_par(p0, p1, n0, n1, walter) ==
  IF ~walter
  THEN IF n0 * p0 = 0 \/ n1 * p1 = 0 THEN Raise("ZeroDivisionError")
       ELSE SqrtOrRaise(DivFP(SCALE - p0, n0 * p0) + DivFP(SCALE - p1, n1 * p1))
  ELSE LET x0 == p0 * n0
           x1 == p1 * n1
       IN  SqrtOrRaise(DivFP(SCALE, x1 + HALF) - DivFP(SCALE, n1 * SCALE + HALF)
                       + DivFP(SCALE, x0 + HALF) - DivFP(SCALE, n0 * SCALE + HALF))

\* ------------------------------------------------------------------------
\* get_overlap: intervals are pairs <<lower, upper>>, the empty list is <<>>
\* ------------------------------------------------------------------------

\* a faulty variant of get_overlap: a >= b for the test of line 127, so that
\* intervals touching at one point count as disjoint
get_overlap_Strict(i1, i2) ==
  LET a == Max(i1[1], i2[1])
      b == Min(i1[Len(i1)], i2[Len(i2)])
  IN  IF a >= b THEN << >> ELSE <<a, b>>

\* a faulty variant of get_overlap: the lower bound of the first interval for
\* the larger of the two lower bounds
get_overlap_FirstLower(i1, i2) ==
  LET a == i1[1]
      b == Min(i1[Len(i1)], i2[Len(i2)])
  IN  IF a > b THEN << >> ELSE <<a, b>>

get_overlap(i1, i2) ==
  LET a == Max(i1[1], i2[1])
      b == Min(i1[Len(i1)], i2[Len(i2)])
  IN  IF a > b THEN << >> ELSE <<a, b>>

\* ------------------------------------------------------------------------
\* get_pvalue
\* ------------------------------------------------------------------------

\* lines 164-166: P_right, p_value and its rounding, from P_left
TwoSided(P_left) == XRound(XMul(Fin(2 * SCALE), XMin(XSub(ONE, P_left), P_left)), 4)

\* lines 156-166, from the variance and the observed ratio
PvalueOf(mean, var, observed_rr) ==
  IF var < 0 \/ observed_rr <= 0 THEN Raise("ValueError")
  ELSE Ok(TwoSided(norm_cdf(math_log(observed_rr), mean, math_sqrt(var))))

get_pvalue(p0, p1, n0, n1) ==
  IF p0 = 0 \/ p1 = 0 THEN Raise("ZeroDivisionError")
  ELSE PvalueOf(math_log(SCALE),
                DivInt(DivFP(SCALE, p0) - SCALE, n0) + DivInt(DivFP(SCALE, p1) - SCALE, n1),
                DivFP(p1, p0))

\* ------------------------------------------------------------------------
\* Configuration (lines 17-70); proportions and confidence are percentages
\* ------------------------------------------------------------------------

PLOT_RANGE_DELTA == 5

CONTROL_MIN == 50

CONTROL_MAX == 20000

CONTROL_START == 1000

TEST_MIN == 50

TEST_MAX == 20000

TEST_START == 1000

CONTROL_FINE_MIN == 0

CONTROL_FINE_MAX == 9

CONTROL_FINE_START == 0

TEST_FINE_MIN == 0

TEST_FINE_MAX == 9

TEST_FINE_START == 0

\* 0.25: "this can never be zero for the control group"
EVENTS_CONTROL_MIN == SCALE \div 4

EVENTS_CONTROL_MAX == 100 * SCALE

EVENTS_CONTROL_START == 3 * SCALE

EVENTS_TEST_MIN == 0 * SCALE

EVENTS_TEST_MAX == 100 * SCALE

\* 1.5
EVENTS_TEST_START == (15 * SCALE) \div 10

CI_MIN == 60 * SCALE

CI_MAX == 99 * SCALE

CI_START == 95 * SCALE

\* the property the callbacks are attached to (line 427)
ON_CHANGE_PROPERTY == "value_throttled"

\* the arguments of the get_cvalue call of line 302.  The code searches from 0.50
\* in steps of 0.0001, a grid of 5000 steps that ends exactly on 1.0; the model
\* keeps a grid that ends exactly on 1.0 and takes GridLevels steps to get there.
GridLevels == 5

CVALUE_STEP == HALF \div GridLevels

CVALUE_BASE == SCALE - GridLevels * CVALUE_STEP

\* ------------------------------------------------------------------------
\* State
\* ------------------------------------------------------------------------

VARIABLES
  slider,      \* Spec: the value of each of the seven sliders
  WALTER_CI,   \* the variance method switch of line 70 (True in the repository)
  display,     \* Spec: what the page shows (the Divs, the plot source, the y range)
  outcome,     \* Spec: how the last update_data call ended: "ok", "raise" or "hang"
  handler,     \* Spec: the last handler run and the update_data calls it made
  events,      \* Spec: the number of handlers run so far
  args,        \* SpecCvalue: the arguments of the get_cvalue call under way
  j,           \* SpecCvalue: the loop counter
  contains,    \* SpecCvalue: the loop flag
  c_value,     \* SpecCvalue: the local c_value (0 until assigned)
  pc,          \* SpecCvalue: "loop", "done" (returned) or "raised"
  result,      \* SpecCvalue: the value returned (0 until then)
  call,        \* SpecFn: the function applied and its arguments
  ret          \* SpecFn: what it returned

uiVars == <<slider, display, outcome, handler, events>>

cvVars == <<args, j, contains, c_value, pc, result>>

fnVars == <<call, ret>>

vars == <<slider, WALTER_CI, display, outcome, handler, events, args, j, contains, c_value, pc, result, call, ret>>

\* ------------------------------------------------------------------------
\* get_cvalue
\* ------------------------------------------------------------------------

\* a faulty variant of lines 220-221: the two signs exchanged
RiskRatioInterval_Swapped(phi, par, z_value) ==
  << XMul(Fin(phi), XExp(XMul(z_value, Fin(par)))),
     XMul(Fin(phi), XExp(XMul(XNeg(z_value), Fin(par)))) >>

\* lines 220-221: the interval phi * exp(-+ z * par)
RiskRatioInterval(phi, par, z_value) ==
  << XMul(Fin(phi), XExp(XMul(XNeg(z_value), Fin(par)))),
     XMul(Fin(phi), XExp(XMul(z_value, Fin(par)))) >>

\* a faulty variant of the test of line 223: the condition negated, the search
\* the prose of the specification describes
ContainsOne_Negated(iv) == ~(XLe(iv[1], ONE) /\ XLe(ONE, iv[2]))

\* line 223 (and 320): 1 >= risk_ratio_l and 1 <= risk_ratio_r
ContainsOne(iv) == XLe(iv[1], ONE) /\ XLe(ONE, iv[2])

\* lines 219-225 of one pass, from phi, par and z_value: what the pass leaves
\* in contains and in c_value (when assigned), or the exception it ends with
CvaluePass(phi, par, z_value, p0, c) ==
  IF phi.st = "raise" \/ par.st = "raise" \/ p0 = 0
  THEN [st |-> "raise", iv |-> <<NAN, NAN>>, contains |-> FALSE, c_value |-> 0]
  ELSE [st |-> "ok", iv |-> RiskRatioInterval(phi.val, par.val, z_value),
        contains |-> ContainsOne(RiskRatioInterval(phi.val, par.val, z_value)), c_value |-> c]

\* a faulty variant of the pass: c_value taken from the level that stops the
\* search, 1 - current_confidence, instead of the level before it
CvalueIter_NoBackstep(p0, p1, n0, n1, base_value, step, jj) ==
  CvaluePass(get_phi(p0, p1, n0, n1, WALTER_CI), get_par(p0, p1, n0, n1, WALTER_CI),
             norm_isf(DivInt(SCALE - (base_value + jj * step), 2)),
             p0, SCALE - (base_value + jj * step))

\* one pass of the loop body, lines 209-225, at counter jj
CvalueIter(p0, p1, n0, n1, base_value, step, jj) ==
  CvaluePass(get_phi(p0, p1, n0, n1, WALTER_CI), get_par(p0, p1, n0, n1, WALTER_CI),
             norm_isf(DivInt(SCALE - (base_value + jj * step), 2)),
             p0, SCALE - ((base_value + jj * step) - step))

RECURSIVE CvalueLoop(_, _, _, _, _, _, _, _)
\* the loop after the pass at counter jj gave it; trace holds the intervals of
\* the passes before.  Past 100% (with step > 0) every later level is past 100%
\* too, norm_isf is NaN there and contains stays False: the loop never exits
\* ("hang").
CvalueAfter(p0, p1, n0, n1, base_value, step, jj, trace, it) ==
  IF it.st = "raise" THEN [st |-> "raise", val |-> 0, trace |-> trace]
  ELSE IF it.contains
  THEN [st |-> "ok", val |-> Round(it.c_value, 4), trace |-> Append(trace, it.iv)]
  ELSE IF step > 0 /\ base_value + jj * step > SCALE
  THEN [st |-> "hang", val |-> 0, trace |-> Append(trace, it.iv)]
  ELSE CvalueLoop(p0, p1, n0, n1, base_value, step, jj + 1, Append(trace, it.iv))

\* the while loop from counter jj on
CvalueLoop(p0, p1, n0, n1, base_value, step, jj, trace) ==
  CvalueAfter(p0, p1, n0, n1, base_value, step, jj, trace,
              CvalueIter(p0, p1, n0, n1, base_value, step, jj))

get_cvalue(p0, p1, n0, n1, base_value, step) ==
  CvalueLoop(p0, p1, n0, n1, base_value, step, 0, << >>)

\* ------------------------------------------------------------------------
\* update_data
\* ------------------------------------------------------------------------

\* binoculars.binomial_confidence(p, n, z=z, method='clopper-pearson'), lines 245
\* and 254.  The library is outside the repository; it is modelled by the normal
\* approximation with continuity correction, p -+ (z sqrt(p(1-p)/n) + 1/(2n)) cut
\* to [0, 1], which like Clopper-Pearson has positive width for every p.
binomial_confidence(p, n, z) ==
  IF z.k # "fin" THEN <<0, SCALE>>
  ELSE LET sqrt_n == 100 * ISqrt(n * SCALE, 0, 46340)
           d == MulFP(z.v, DivFP(math_sqrt(MulFP(p, SCALE - p)), sqrt_n)) + DivInt(SCALE, 2 * n)
       IN  <<Max(0, p - d), Min(SCALE, p + d)>>

\* lines 264-272 from the overlap tmp_interval: its length, its rounded bounds
\* and its share of the test group's interval (numpy float64 arithmetic)
OverlapTexts(tmp_interval, test_risk_err) ==
  IF Len(tmp_interval) > 0
  THEN [length |-> Round(tmp_interval[2] - tmp_interval[1], 2),
        interval |-> <<Round(tmp_interval[1], 2), Round(tmp_interval[2], 2)>>,
        pct |-> XRound(XMul(NpDiv(tmp_interval[2] - tmp_interval[1], test_risk_err), Fin(100 * SCALE)), 2)]
  ELSE [length |-> Round(0, 2), interval |-> << >>,
        pct |-> XRound(XMul(NpDiv(0, test_risk_err), Fin(100 * SCALE)), 2)]

\* lines 258-272: the overlap of the two group intervals
OverlapDisplay(test_risk_ci, control_risk_ci) ==
  OverlapTexts(get_overlap(test_risk_ci, control_risk_ci), test_risk_ci[2] - test_risk_ci[1])

\* line 288
AdvEffectsThreshold(confidence_level, test_participants) ==
  (SCALE - Pow(SCALE - confidence_level, DivFP(SCALE, test_participants * SCALE))) * 100

\* lines 295-298 and 307-312: a value, or the text "<= 0.0001"
Shown(x) == IF XGt(x, Fin(1)) THEN [le |-> FALSE, v |-> x] ELSE [le |-> TRUE, v |-> Fin(1)]

NoDisplay == [raised |-> TRUE]

\* np.array(...) * 100 of an interval
Times100(iv) == <<iv[1] * 100, iv[2] * 100>>

\* lines 233-253: what update_data reads from the sliders at s
Readings(s) ==
  [confidence_level |-> DivInt(s.ci, 100),
   z_value |-> norm_isf(DivInt(SCALE - DivInt(s.ci, 100), 2)),
   control_participants |-> s.control + s.control_fine,
   test_participants |-> s.test + s.test_fine,
   control_risk |-> Round(s.events_control, 2),
   test_risk |-> Round(s.events_test, 2),
   p0 |-> DivInt(Round(s.events_control, 2), 100),
   p1 |-> DivInt(Round(s.events_test, 2), 100)]

\* lines 245-302: the values update_data computes from its readings r
Computed(r) ==
  [control_risk_ci |-> Times100(binomial_confidence(r.p0, r.control_participants, r.z_value)),
   test_risk_ci |-> Times100(binomial_confidence(r.p1, r.test_participants, r.z_value)),
   phi |-> get_phi(r.p0, r.p1, r.control_participants, r.test_participants, WALTER_CI),
   par |-> get_par(r.p0, r.p1, r.control_participants, r.test_participants, WALTER_CI),
   adv_effects_threshold |-> AdvEffectsThreshold(r.confidence_level, r.test_participants),
   p_value |-> get_pvalue(r.p0, r.p1, r.control_participants, r.test_participants),
   cv |-> get_cvalue(r.p0, r.p1, r.control_participants, r.test_participants, CVALUE_BASE, CVALUE_STEP)]

\* lines 314-343: the assignments to the page
Assigned(r, c, iv) ==
  [raised |-> FALSE,
   text_participants |-> <<r.test_participants, r.control_participants>>,
   text_risk |-> [test |-> <<r.test_risk, Round(c.test_risk_ci[1], 2), Round(c.test_risk_ci[2], 2)>>,
                  control |-> <<r.control_risk, Round(c.control_risk_ci[1], 2), Round(c.control_risk_ci[2], 2)>>,
                  overlap |-> OverlapDisplay(c.test_risk_ci, c.control_risk_ci)],
   text_risk_ratio |-> [risk_ratio |-> Round(DivFP(r.test_risk, r.control_risk), 2),
                        risk_ratio_l |-> XRound(iv[1], 2),
                        risk_ratio_r |-> XRound(iv[2], 2),
                        p_value |-> Shown(c.p_value.val),
                        c_value |-> Shown(Fin(c.cv.val)),
                        highest_ci |-> Round(SCALE - c.cv.val, 4),
                        highest_ci_pct |-> Round((SCALE - c.cv.val) * 100, 2)],
   text_adv_effects |-> Round(c.adv_effects_threshold, 2),
   text_warnings |-> <<ContainsOne(<<XRound(iv[1], 2), XRound(iv[2], 2)>>),
                       c.adv_effects_threshold > r.control_risk>>,
   source |-> [values |-> <<r.test_risk, r.control_risk>>,
               upper |-> <<Round(c.test_risk_ci[2], 2), Round(c.control_risk_ci[2], 2)>>,
               lower |-> <<Round(c.test_risk_ci[1], 2), Round(c.control_risk_ci[1], 2)>>],
   y_range_end |-> math_ceil(Max(Round(c.test_risk_ci[2], 2), Round(c.control_risk_ci[2], 2)))
                   + PLOT_RANGE_DELTA]

\* the body in its order: an exception of lines 277-302 ends it before any
\* assignment to the page; iv is the relative-risk interval of lines 281-282
\* before rounding (<< >> when it was not reached)
Body(r, c) ==
  IF c.phi.st = "raise" \/ c.par.st = "raise" \/ r.control_risk = 0
  THEN [st |-> "raise", display |-> NoDisplay, trace |-> << >>, iv |-> << >>]
  ELSE IF c.p_value.st = "raise"
  THEN [st |-> "raise", display |-> NoDisplay, trace |-> << >>,
        iv |-> RiskRatioInterval(c.phi.val, c.par.val, r.z_value)]
  ELSE IF c.cv.st # "ok"
  THEN [st |-> c.cv.st, display |-> NoDisplay, trace |-> c.cv.trace,
        iv |-> RiskRatioInterval(c.phi.val, c.par.val, r.z_value)]
  ELSE [st |-> "ok", trace |-> c.cv.trace,
        iv |-> RiskRatioInterval(c.phi.val, c.par.val, r.z_value),
        display |-> Assigned(r, c, RiskRatioInterval(c.phi.val, c.par.val, r.z_value))]

\* the values read and computed, handed on
Compute(r) == Body(r, Computed(r))

\* update_data with the sliders at s: how it ends ("ok", "raise", "hang"), the
\* display it assigns, the relative-risk interval and the intervals get_cvalue
\* visited
update_data(s) == Compute(Readings(s))

\* ------------------------------------------------------------------------
\* Spec: the page.  The sliders, update_data as their callback, the Reset button
\* ------------------------------------------------------------------------

\* the handlers a behaviour runs
MaxEvents == 4

Widgets == {"control", "test", "control_fine", "test_fine", "events_control", "events_test", "ci"}

\* lines 364-374: the values each slider starts with
StartValues ==
  [control |-> CONTROL_START, test |-> TEST_START,
   control_fine |-> CONTROL_FINE_START, test_fine |-> TEST_FINE_START,
   events_control |-> EVENTS_CONTROL_START, events_test |-> EVENTS_TEST_START,
   ci |-> CI_START]

\* a faulty variant of the slider ranges: the control proportion starts at 0,
\* as the test proportion does
SliderValues_ControlFromZero(w) ==
  CASE w = "control" -> {CONTROL_MIN, CONTROL_START}
    [] w = "test" -> {TEST_MIN, TEST_START}
    [] w = "control_fine" -> {CONTROL_FINE_MIN, CONTROL_FINE_MAX}
    [] w = "test_fine" -> {TEST_FINE_MIN, TEST_FINE_MAX}
    [] w = "events_control" -> {EVENTS_TEST_MIN, EVENTS_CONTROL_START, EVENTS_CONTROL_MAX}
    [] w = "events_test" -> {EVENTS_TEST_MIN, EVENTS_TEST_START, EVENTS_CONTROL_START}
    [] OTHER -> {CI_MIN, CI_START, CI_MAX}

\* the values of its start..end range a slider is moved to here: the two ends
\* and the start value.  Two upper ends are left out because the fixed point
\* cannot hold what the code computes there: the group sizes (0.5 / (n + 0.5)
\* in get_phi falls below its resolution) and the test proportion (the Katz
\* upper bound exceeds its range); the test proportion takes the control
\* group's start value instead, so that equal proportions occur.
SliderValues(w) ==
  CASE w = "control" -> {CONTROL_MIN, CONTROL_START}
    [] w = "test" -> {TEST_MIN, TEST_START}
    [] w = "control_fine" -> {CONTROL_FINE_MIN, CONTROL_FINE_MAX}
    [] w = "test_fine" -> {TEST_FINE_MIN, TEST_FINE_MAX}
    [] w = "events_control" -> {EVENTS_CONTROL_MIN, EVENTS_CONTROL_START, EVENTS_CONTROL_MAX}
    [] w = "events_test" -> {EVENTS_TEST_MIN, EVENTS_TEST_START, EVENTS_CONTROL_START}
    [] OTHER -> {CI_MIN, CI_START, CI_MAX}

\* the scenario update_data reads from slider values s (lines 233-253)
Scenario(s) ==
  [n_control |-> s.control + s.control_fine, n_test |-> s.test + s.test_fine,
   p_control |-> Round(s.events_control, 2), p_test |-> Round(s.events_test, 2),
   confidence_pct |-> s.ci]

\* a call of update_data with the sliders at s: an exception or a hang leaves
\* the display as it was
RunUpdateData(s) ==
  \E u \in {update_data(s)} :
    /\ outcome' = u.st
    /\ display' = IF u.st = "ok" THEN u.display ELSE display

IdlePage ==
  /\ slider = StartValues
  /\ display = NoDisplay
  /\ outcome = "none"
  /\ handler = [name |-> "none", calls |-> 0]
  /\ events = 0

IdleCvalue ==
  /\ args = [p0 |-> 0, p1 |-> 0, n0 |-> 0, n1 |-> 0, base_value |-> 0, step |-> 0]
  /\ j = 0
  /\ contains = FALSE
  /\ c_value = 0
  /\ pc = "idle"
  /\ result = 0

IdleFn ==
  /\ call = [fn |-> "none"]
  /\ ret = [st |-> "none"]

\* lines 364-422: the page is built with the sliders at their start values and
\* update_data is called once
Init ==
  /\ WALTER_CI \in BOOLEAN
  /\ slider = StartValues
  /\ \E u \in {update_data(StartValues)} :
       /\ outcome = u.st
       /\ display = u.display
  /\ handler = [name |-> "main", calls |-> 1]
  /\ events = 0
  /\ IdleCvalue
  /\ IdleFn

\* lines 426-427: a slider is moved to v and released; its value_throttled
\* change runs update_data
SliderChanged(w, v) ==
  /\ events < MaxEvents
  /\ outcome # "hang"
  /\ v # slider[w]
  /\ slider' = [slider EXCEPT ![w] = v]
  /\ RunUpdateData([slider EXCEPT ![w] = v])
  /\ handler' = [name |-> "update_data", calls |-> 1]
  /\ events' = events + 1
  /\ UNCHANGED <<WALTER_CI, cvVars, fnVars>>

\* the update_data calls the seven assignments of reset_data set off: a slider
\* whose value changes reports a change of "value", and the callbacks listen to
\* ON_CHANGE_PROPERTY
ResetCallbacks(s) ==
  IF ON_CHANGE_PROPERTY = "value"
  THEN Cardinality({w \in Widgets : s[w] # StartValues[w]})
  ELSE 0

\* lines 345-359: the Reset button
reset_data ==
  /\ events < MaxEvents
  /\ outcome # "hang"
  /\ slider' = StartValues
  /\ RunUpdateData(StartValues)
  /\ handler' = [name |-> "reset_data", calls |-> ResetCallbacks(slider) + 1]
  /\ events' = events + 1
  /\ UNCHANGED <<WALTER_CI, cvVars, fnVars>>

Next ==
  \/ \E w \in Widgets : \E v \in SliderValues(w) : SliderChanged(w, v)
  \/ reset_data

Spec == Init /\ [][Next]_vars

\* ------------------------------------------------------------------------
\* SpecCvalue: one call of get_cvalue, a pass of the loop at a time
\* ------------------------------------------------------------------------

\* the passes of the loop a behaviour follows
MaxIter == 8

\* the arguments tried: proportions 0.25%, 3% and 100% against 0, 1.5%, 3% and
\* 100%, group sizes 50 and 1000, and grids that reach 1.0 exactly or step over it
CvalueArgs ==
  [p0 : {SCALE \div 400, (3 * SCALE) \div 100, SCALE},
   p1 : {0, (15 * SCALE) \div 1000, (3 * SCALE) \div 100, SCALE},
   n0 : {50, 1000},
   n1 : {50, 1000},
   base_value : {CVALUE_BASE, 6 * (SCALE \div 10)},
   step : {CVALUE_STEP, SCALE \div 4, 3 * (SCALE \div 10)}]

InitCvalue ==
  /\ WALTER_CI \in BOOLEAN
  /\ args \in CvalueArgs
  /\ j = 0
  /\ contains = FALSE
  /\ c_value = 0
  /\ pc = "loop"
  /\ result = 0
  /\ IdlePage
  /\ IdleFn

\* lines 207-225: the loop test passes and the body runs once
CvalueBody ==
  /\ pc = "loop"
  /\ contains = FALSE
  /\ j < MaxIter
  /\ \E it \in {CvalueIter(args.p0, args.p1, args.n0, args.n1, args.base_value, args.step, j)} :
       /\ pc' = IF it.st = "raise" THEN "raised" ELSE "loop"
       /\ contains' = it.contains
       /\ c_value' = IF it.contains THEN it.c_value ELSE c_value
  /\ j' = j + 1
  /\ UNCHANGED <<WALTER_CI, args, result, uiVars, fnVars>>

\* lines 207 and 228: the loop test fails and the function returns
CvalueReturn ==
  /\ pc = "loop"
  /\ contains = TRUE
  /\ pc' = "done"
  /\ result' = Round(c_value, 4)
  /\ UNCHANGED <<WALTER_CI, args, j, contains, c_value, uiVars, fnVars>>

NextCvalue == CvalueBody \/ CvalueReturn

SpecCvalue == InitCvalue /\ [][NextCvalue]_vars

\* ------------------------------------------------------------------------
\* SpecFn: the functions applied once to arguments of bounded sets
\* ------------------------------------------------------------------------

\* the largest interval bound, in percent
IvMax == 4

\* the intervals <<lower, upper>> with whole-percent bounds, lower <= upper
Intervals == { iv \in { <<a * SCALE, b * SCALE>> : a \in 0..IvMax, b \in 0..IvMax } : iv[1] <= iv[2] }

InitFn ==
  /\ WALTER_CI \in BOOLEAN
  /\ IdlePage
  /\ IdleCvalue
  /\ IdleFn

CallGetOverlap(i1, i2) ==
  /\ call.fn = "none"
  /\ call' = [fn |-> "get_overlap", i1 |-> i1, i2 |-> i2]
  /\ ret' = Ok(get_overlap(i1, i2))
  /\ UNCHANGED <<WALTER_CI, uiVars, cvVars>>

\* lines 262-272 applied to the two group intervals
CallOverlapDisplay(test_risk_ci, control_risk_ci) ==
  /\ call.fn = "none"
  /\ call' = [fn |-> "overlap_display", test_risk_ci |-> test_risk_ci, control_risk_ci |-> control_risk_ci]
  /\ ret' = Ok(OverlapDisplay(test_risk_ci, control_risk_ci))
  /\ UNCHANGED <<WALTER_CI, uiVars, cvVars>>

\* get_phi and then get_par, as lines 277-278 and 216-217 call them
CallPhiPar(p0, p1, n0, n1, walter) ==
  /\ call.fn = "none"
  /\ call' = [fn |-> "phi_par", p0 |-> p0, p1 |-> p1, n0 |-> n0, n1 |-> n1, walter |-> walter]
  /\ ret' = [st |-> "ok", phi |-> get_phi(p0, p1, n0, n1, walter), par |-> get_par(p0, p1, n0, n1, walter)]
  /\ UNCHANGED <<WALTER_CI, uiVars, cvVars>>

\* every setting of the sliders of the page
AllSliderValues ==
  [control : SliderValues("control"), test : SliderValues("test"),
   control_fine : SliderValues("control_fine"), test_fine : SliderValues("test_fine"),
   events_control : SliderValues("events_control"), events_test : SliderValues("events_test"),
   ci : SliderValues("ci")]

CallUpdateData(s) ==
  /\ call.fn = "none"
  /\ call' = [fn |-> "update_data", s |-> s]
  /\ ret' = update_data(s)
  /\ UNCHANGED <<WALTER_CI, uiVars, cvVars>>

NextFn ==
  \/ \E i1 \in Intervals, i2 \in Intervals : CallOverlapDisplay(i1, i2)
  \/ \E i1 \in Intervals, i2 \in Intervals : CallGetOverlap(i1, i2)
  \/ \E a \in CvalueArgs, walter \in BOOLEAN : CallPhiPar(a.p0, a.p1, a.n0, a.n1, walter)
  \/ \E s \in AllSliderValues : CallUpdateData(s)

SpecFn == InitFn /\ [][NextFn]_vars

\* ------------------------------------------------------------------------
\* Properties of get_cvalue (SpecCvalue)
\* ------------------------------------------------------------------------

\* the confidence level of pass i of the call under way
Level(i) == args.base_value + i * args.step

\* the relative-risk interval of the call under way at the level of pass i,
\* lines 209-221
LevelInterval(i) ==
  RiskRatioInterval(get_phi(args.p0, args.p1, args.n0, args.n1, WALTER_CI).val,
                    get_par(args.p0, args.p1, args.n0, args.n1, WALTER_CI).val,
                    norm_isf(DivInt(SCALE - Level(i), 2)))

\* 1 lies in the interval
Holds1(iv) == XLe(iv[1], ONE) /\ XLe(ONE, iv[2])

\* 1 lies below or above the interval
Excludes1(iv) == XLt(ONE, iv[1]) \/ XLt(iv[2], ONE)

\* C1, as the code has it: the search starts at base_value, raises the
\* confidence by step each pass and stops at the first grid level whose
\* relative-risk interval contains 1; the value it returns is
\* round(1 - (confidence - step), 4), where confidence - step is the level before
\* the one that stopped it: at every level before the stop the interval did
\* not contain 1.
C1_StopsAtFirstLevelContainingOne ==
  pc = "done" =>
    /\ j >= 1
    /\ Holds1(LevelInterval(j - 1))
    /\ \A i \in 0..(j - 2) : ~Holds1(LevelInterval(i))
    /\ result = Round(SCALE - (Level(j - 1) - args.step), 4)

\* C1: a call has returned after passes at several levels
C1_Witness == pc = "done" /\ j >= 3 /\ result = SCALE - Level(j - 2)

\* C1 as stated: the search stops at the first grid level whose interval no
\* longer contains 1, and confidence - step is the last level for which the
\* interval still contained 1
C1_AsStated ==
  pc = "done" =>
    /\ j >= 1
    /\ ~Holds1(LevelInterval(j - 1))
    /\ \A i \in 0..(j - 2) : Holds1(LevelInterval(i))
    /\ result = Round(SCALE - (Level(j - 1) - args.step), 4)

\* C2: whenever the interval at base_value excludes 1, the value returned is
\* 1 - C for a grid level C at which the interval excludes 1, the interval
\* excludes 1 at every grid level up to C and contains 1 at every grid level
\* above C up to 100%: C is the highest level that excludes 1 and there is
\* exactly one crossing.
C2_ReturnsHighestExcludingLevel ==
  (pc = "done" /\ Excludes1(LevelInterval(0))) =>
    /\ j >= 2
    /\ result = Round(SCALE - Level(j - 2), 4)
    /\ \A i \in 0..MaxIter :
         /\ i <= j - 2 => Excludes1(LevelInterval(i))
         /\ (i > j - 2 /\ Level(i) <= SCALE) => Holds1(LevelInterval(i))

\* C2: a call has returned whose interval excludes 1 at the base level and
\* crosses 1 below 100%, with levels left above the crossing
C2_Witness ==
  /\ pc = "done"
  /\ Excludes1(LevelInterval(0))
  /\ Level(j - 1) < SCALE
  /\ Level(j) <= SCALE

\* C3: the search never runs a pass at a confidence above 100%: by then it has
\* returned or has failed for want of a boundary
C3_NoPassAboveFullConfidence ==
  (pc = "loop" /\ j >= 1) => Level(j - 1) <= SCALE

\* ------------------------------------------------------------------------
\* Properties of the functions (SpecFn)
\* ------------------------------------------------------------------------

\* C4: with a test proportion of exactly 0 and a positive control proportion,
\* get_phi and get_par return values with the Walter method, and with the Katz
\* method the computation fails with a division by zero in the variance term
\* (get_par).
C4_WalterReturnsKatzFails ==
  (call.fn = "phi_par" /\ call.p1 = 0 /\ call.p0 > 0) =>
    IF call.walter
    THEN ret.phi.st = "ok" /\ ret.par.st = "ok"
    ELSE ret.par = Raise("ZeroDivisionError")

\* C4: the Katz computation has failed at a test proportion of 0
C4_Witness ==
  /\ call.fn = "phi_par"
  /\ call.p1 = 0
  /\ call.p0 > 0
  /\ ~call.walter
  /\ ret.par.st = "raise"

\* C6: for every setting of the sliders and either variance method, the
\* relative-risk interval of the main estimate has lower <= upper, before and
\* after rounding to two decimals, and so has the interval at every confidence
\* level get_cvalue visits.
C6_LowerAtMostUpper ==
  call.fn = "update_data" =>
    /\ ret.iv # << >> =>
         /\ XLe(ret.iv[1], ret.iv[2])
         /\ XLe(XRound(ret.iv[1], 2), XRound(ret.iv[2], 2))
    /\ \A i \in 1..Len(ret.trace) : XLe(ret.trace[i][1], ret.trace[i][2])

\* C6: update_data has run to its end with the Katz method and the search
\* visited several levels
C6_Witness ==
  /\ call.fn = "update_data"
  /\ ~WALTER_CI
  /\ ret.st = "ok"
  /\ Len(ret.trace) >= 3
  /\ XLt(ret.iv[1], ret.iv[2])

\* C7: for intervals with lower <= upper, get_overlap returns
\* [max of the lowers, min of the uppers] exactly when that max is <= that min,
\* and the empty list exactly when the intervals are disjoint.
C7_Intersection ==
  call.fn = "get_overlap" =>
    \E lo \in {IF call.i1[1] >= call.i2[1] THEN call.i1[1] ELSE call.i2[1]} :
      \E hi \in {IF call.i1[2] <= call.i2[2] THEN call.i1[2] ELSE call.i2[2]} :
        /\ lo <= hi <=> ret.val = <<lo, hi>>
        /\ lo > hi <=> ret.val = << >>
        /\ (call.i1[2] < call.i2[1] \/ call.i2[2] < call.i1[1]) <=> ret.val = << >>

\* C7: two intervals touching at one point gave a zero-width interval
C7_Witness ==
  /\ call.fn = "get_overlap"
  /\ call.i1[1] < call.i1[2]
  /\ call.i1[2] = call.i2[1]
  /\ call.i2[1] < call.i2[2]
  /\ ret.val = <<call.i1[2], call.i1[2]>>

\* C8: get_overlap(a, b) equals get_overlap(b, a), an interval or the empty list
C8_Symmetric ==
  call.fn = "get_overlap" => ret.val = get_overlap(call.i2, call.i1)

\* C8: two different intervals that overlap by more than a point
C8_Witness ==
  /\ call.fn = "get_overlap"
  /\ call.i1 # call.i2
  /\ Len(ret.val) = 2
  /\ ret.val[1] < ret.val[2]
  /\ ret.val # call.i1
  /\ ret.val # call.i2

\* C9: when the test group's interval has zero width, the overlap percentage is
\* not computed: the computation fails and no number, NaN or infinity is
\* produced
C9_ZeroWidthNotComputable ==
  (call.fn = "overlap_display" /\ call.test_risk_ci[1] = call.test_risk_ci[2]) =>
    ret.st = "raise"

\* ------------------------------------------------------------------------
\* Properties of the page (Spec)
\* ------------------------------------------------------------------------

\* C5: with the default Walter method, after every handler update_data has run
\* to completion and the page shows the results of the current slider values
C5_DisplayIsCurrent ==
  WALTER_CI =>
    /\ outcome = "ok"
    /\ display.raised = FALSE
    /\ display.text_participants = <<Scenario(slider).n_test, Scenario(slider).n_control>>
    /\ display.source.values = <<Scenario(slider).p_test, Scenario(slider).p_control>>

\* C10: in every state the sliders and the Reset button lead to, the scenario
\* update_data reads has a control proportion > 0, group sizes >= 1 and a
\* confidence strictly between 0 and 100; and reset_data leaves all seven
\* sliders at their start values and has called update_data once.
C10_ScenarioInvariant ==
  /\ Scenario(slider).p_control > 0
  /\ Scenario(slider).n_control >= 1
  /\ Scenario(slider).n_test >= 1
  /\ Scenario(slider).confidence_pct > 0
  /\ Scenario(slider).confidence_pct < 100 * SCALE
  /\ handler.name = "reset_data" => (slider = StartValues /\ handler.calls = 1)

\* C10: Reset was clicked after two other handlers had run, and update_data
\* ran to its end on the start values
C10_Witness ==
  /\ handler.name = "reset_data"
  /\ events >= 3
  /\ slider = StartValues
  /\ outcome = "ok"

====
